---- MODULE Spec2Model ----
(***************************************************************************)
(* A model of the ESC/POS command formatter of package printer             *)
(* (src/printer.go).  Go strings and byte slices are sequences of bytes    *)
(* (naturals in 0..255); a parameter map is a function whose DOMAIN is the *)
(* set of keys present.  A formatter method is an operator on a "machine"  *)
(* record m = [p, w, st, failAt]:                                          *)
(*   p      the fields of the Printer struct,                              *)
(*   w      the calls of WritePrinter issued so far by the running         *)
(*          operation, each with the sink's answer,                        *)
(*   st     "running", or how the process died: "fatal" (log.Fatalf) or    *)
(*          "panic" (a Go runtime panic),                                  *)
(*   failAt the number of the WritePrinter call the sink fails (0: none).  *)
(* A statement of the Go code that follows a dead machine does nothing.    *)
(*                                                                         *)
(* The spooler side of the package (the queries Default, ReadNames, Jobs   *)
(* and DriverInfo, Open and Close, and the print lifecycle of              *)
(* src/printer_test.go) is modelled call by call: handle is the state of   *)
(* the printer handle, sys the calls made so far with the answers of the   *)
(* operating system, frame the local variables of the running function.    *)
(***************************************************************************)
EXTENDS Integers, Sequences, FiniteSets, TLC

VARIABLES p, out, op, status, handle, sys, frame

vars == <<p, out, op, status, handle, sys, frame>>

----------------------------------------------------------------------------
(* Bounds of the model.                                                    *)

\* Font widths and heights passed to SetFontSize: 0..MaxFontArg, and 255.
MaxFontArg == 9

\* Values passed to the toggle setters: 0..MaxToggle.
MaxToggle == 1

\* The sink fails the failAt-th write of an operation, failAt in 0..MaxFailAt.
MaxFailAt == 1

----------------------------------------------------------------------------
(* Bytes and strings.                                                      *)

ESC == 27

GS == 29

Byte == 0..255

\* uint8(i) for an int i
Uint8(i) == i % 256

\* uint16(i) for an int i
Uint16(i) == i % 65536

\* s[from:to] of Go, 0-based, to exclusive
Slice(s, from, to) == SubSeq(s, from + 1, to)

IsPrefix(s, t) == Len(s) <= Len(t) /\ SubSeq(t, 1, Len(s)) = s

RECURSIVE Flatten(_)
Flatten(ss) == IF ss = <<>> THEN <<>> ELSE Head(ss) \o Flatten(Tail(ss))

\* fmt.Sprintf("%c", r): the UTF-8 encoding of the code point r, U+FFFD
\* for what is no code point.
FmtC(r) ==
    IF r < 0 \/ r > 1114111 \/ (r >= 55296 /\ r <= 57343) THEN <<239, 191, 189>>
    ELSE IF r < 128 THEN <<r>>
    ELSE IF r < 2048 THEN <<192 + (r \div 64), 128 + (r % 64)>>
    ELSE IF r < 65536
         THEN <<224 + (r \div 4096), 128 + ((r \div 64) % 64), 128 + (r % 64)>>
    ELSE <<240 + (r \div 262144), 128 + ((r \div 4096) % 64),
           128 + ((r \div 64) % 64), 128 + (r % 64)>>

\* fmt.Sprintf("%v", n) for an int n >= 0: its decimal digits
RECURSIVE FmtV(_)
FmtV(n) == IF n < 10 THEN <<48 + n>> ELSE FmtV(n \div 10) \o <<48 + (n % 10)>>

IsDigit(c) == c >= 48 /\ c <= 57

RECURSIVE DigitsValue(_)
DigitsValue(s) ==
    IF s = <<>> THEN 0
    ELSE 10 * DigitsValue(SubSeq(s, 1, Len(s) - 1)) + (s[Len(s)] - 48)

\* the digits of s after an optional sign
AtoiDigits(s) == IF s # <<>> /\ s[1] \in {43, 45} THEN Tail(s) ELSE s

\* strconv.Atoi(s) returns a nil error
AtoiOk(s) ==
    /\ AtoiDigits(s) # <<>>
    /\ \A i \in 1..Len(AtoiDigits(s)) : IsDigit(AtoiDigits(s)[i])

\* strconv.Atoi(s), where AtoiOk(s)
Atoi(s) ==
    IF s[1] = 45 THEN 0 - DigitsValue(AtoiDigits(s)) ELSE DigitsValue(AtoiDigits(s))

\* strings.ToUpper on a one-byte ASCII string
ToUpper(s) == [i \in 1..Len(s) |-> IF s[i] >= 97 /\ s[i] <= 122 THEN s[i] - 32 ELSE s[i]]

----------------------------------------------------------------------------
(* The machine.                                                            *)

\* var p Printer: the zero value of the struct, as Open returns it
ZeroPrinter ==
    [width |-> 0, height |-> 0, underline |-> 0, emphasize |-> 0,
     upsidedown |-> 0, rotate |-> 0, reverse |-> 0, smooth |-> 0]

Machine(q, failAt) == [p |-> q, w |-> <<>>, st |-> "running", failAt |-> failAt]

\* the sink's answer to the k-th WritePrinter call of an operation
WritePrinter(m, k) == k # m.failAt

\* Printer.Write: b[0] panics on an empty slice before the sink is called;
\* no caller in the formatter looks at the error returned.
Write(m, b) ==
    IF m.st # "running" THEN m
    ELSE IF b = <<>> THEN [m EXCEPT !.st = "panic"]
    ELSE [m EXCEPT !.w = Append(@, [b |-> b, ok |-> WritePrinter(m, Len(m.w) + 1)])]

WriteString(m, data) == Write(m, data)

\* log.Fatal and log.Fatalf: the process exits
Fatal(m) == IF m.st # "running" THEN m ELSE [m EXCEPT !.st = "fatal"]

\* an assignment to fields of p
Assign(m, q) == IF m.st # "running" THEN m ELSE [m EXCEPT !.p = q]

reset(m) ==
    Assign(m, [width |-> 1, height |-> 1, underline |-> 0, emphasize |-> 0,
               upsidedown |-> 0, rotate |-> 0, reverse |-> 0, smooth |-> 0])

PrinterInit(m) == WriteString(reset(m), <<ESC, 64>>)

Cut(m) == WriteString(m, <<GS, 86, 65, 48>>)

Linefeed(m) == WriteString(m, <<10>>)

FormfeedN(m, n) == WriteString(m, <<ESC, 100>> \o FmtC(n))

Formfeed(m) == FormfeedN(m, 1)

\* ((p.width-1)<<4)|(p.height-1) in uint8 arithmetic
FontSizeByte(width, height) ==
    LET hi == (Uint8(width - 1) * 16) % 256
        lo == Uint8(height - 1)
        bit(x, i) == (x \div (2 ^ i)) % 2
        or(i) == IF bit(hi, i) = 1 \/ bit(lo, i) = 1 THEN 2 ^ i ELSE 0
    IN  or(0) + or(1) + or(2) + or(3) + or(4) + or(5) + or(6) + or(7)

SendFontSize(m) == WriteString(m, <<GS, 33>> \o FmtC(FontSizeByte(m.p.width, m.p.height)))

\* SetFontSize with the sides of the assignment crossed
SetFontSizeCrossed(m, width, height) ==
    IF width > 0 /\ height > 0 /\ width <= 8 /\ height <= 8
    THEN SendFontSize(Assign(m, [m.p EXCEPT !.width = height, !.height = width]))
    ELSE Fatal(m)

\* SetFontSize with the upper bounds off by one
SetFontSizeUpTo9(m, width, height) ==
    IF width > 0 /\ height > 0 /\ width <= 9 /\ height <= 9
    THEN SendFontSize(Assign(m, [m.p EXCEPT !.width = width, !.height = height]))
    ELSE Fatal(m)

SetFontSize(m, width, height) ==
    IF width > 0 /\ height > 0 /\ width <= 8 /\ height <= 8
    THEN SendFontSize(Assign(m, [m.p EXCEPT !.width = width, !.height = height]))
    ELSE Fatal(m)

SendUnderline(m) == WriteString(m, <<ESC, 45>> \o FmtC(m.p.underline))

SendEmphasize(m) == WriteString(m, <<ESC, 71>> \o FmtC(m.p.emphasize))

SendUpsidedown(m) == WriteString(m, <<ESC, 123>> \o FmtC(m.p.upsidedown))

SendRotate(m) == WriteString(m, <<ESC, 82>> \o FmtC(m.p.rotate))

SendReverse(m) == WriteString(m, <<GS, 66>> \o FmtC(m.p.reverse))

SendSmooth(m) == WriteString(m, <<GS, 98>> \o FmtC(m.p.smooth))

SendMoveX(m, x) == WriteString(m, <<ESC, 36, x % 256, x \div 256>>)

SendMoveY(m, y) == WriteString(m, <<GS, 36, y % 256, y \div 256>>)

SetUnderline(m, v) == SendUnderline(Assign(m, [m.p EXCEPT !.underline = v]))

SetEmphasize(m, u) == SendEmphasize(Assign(m, [m.p EXCEPT !.emphasize = u]))

SetUpsidedown(m, v) == SendUpsidedown(Assign(m, [m.p EXCEPT !.upsidedown = v]))

SetRotate(m, v) == SendRotate(Assign(m, [m.p EXCEPT !.rotate = v]))

SetReverse(m, v) == SendReverse(Assign(m, [m.p EXCEPT !.reverse = v]))

SetSmooth(m, v) == SendSmooth(Assign(m, [m.p EXCEPT !.smooth = v]))

Pulse(m) == WriteString(m, <<ESC, 112, 2>>)

----------------------------------------------------------------------------
(* String literals of the source, as bytes.                                *)

Str_true == <<116, 114, 117, 101>>             \* "true"
Str_1 == <<49>>                                \* "1"
Str_false == <<102, 97, 108, 115, 101>>        \* "false"
Str_0 == <<48>>                                \* "0"
Str_left == <<108, 101, 102, 116>>             \* "left"
Str_center == <<99, 101, 110, 116, 101, 114>>  \* "center"
Str_right == <<114, 105, 103, 104, 116>>       \* "right"
Str_en == <<101, 110>>                         \* "en"
Str_fr == <<102, 114>>                         \* "fr"
Str_de == <<100, 101>>                         \* "de"
Str_uk == <<117, 107>>                         \* "uk"
Str_da == <<100, 97>>                          \* "da"
Str_sv == <<115, 118>>                         \* "sv"
Str_it == <<105, 116>>                         \* "it"
Str_es == <<101, 115>>                         \* "es"
Str_ja == <<106, 97>>                          \* "ja"
Str_no == <<110, 111>>                         \* "no"
Str_A == <<65>>                                \* "A"
Str_B == <<66>>                                \* "B"
Str_C == <<67>>                                \* "C"
Str_feed == <<102, 101, 101, 100>>             \* "feed"

----------------------------------------------------------------------------
(* Text replacement.                                                       *)

\* textReplaceMap, its entries numbered in the order of the source text
textReplaceMap ==
    << [k |-> <<38, 35, 57, 59>>,            v |-> <<9>>],    \* "&#9;"
       [k |-> <<38, 35, 120, 57, 59>>,       v |-> <<9>>],    \* "&#x9;"
       [k |-> <<38, 35, 49, 48, 59>>,        v |-> <<10>>],   \* "&#10;"
       [k |-> <<38, 35, 120, 65, 59>>,       v |-> <<10>>],   \* "&#xA;"
       [k |-> <<38, 97, 112, 111, 115, 59>>, v |-> <<39>>],   \* "&apos;"
       [k |-> <<38, 113, 117, 111, 116, 59>>, v |-> <<34>>],  \* "&quot;"
       [k |-> <<38, 103, 116, 59>>,          v |-> <<62>>],   \* "&gt;"
       [k |-> <<38, 108, 116, 59>>,          v |-> <<60>>],   \* "&lt;"
       [k |-> <<38, 97, 109, 112, 59>>,      v |-> <<38>>] >> \* "&amp;"

\* strings.Replace(s, old, new, -1), old not empty: every non-overlapping
\* occurrence of old, from the left
RECURSIVE Replace(_, _, _)
Replace(s, old, new) ==
    IF Len(s) < Len(old) THEN s
    ELSE IF SubSeq(s, 1, Len(old)) = old
         THEN new \o Replace(SubSeq(s, Len(old) + 1, Len(s)), old, new)
    ELSE <<Head(s)>> \o Replace(Tail(s), old, new)

\* textReplace, where the range loop visits the entries of the map in the
\* order given: Go leaves the iteration order of a map unspecified
RECURSIVE textReplace(_, _)
textReplace(data, order) ==
    IF order = <<>> THEN data
    ELSE textReplace(Replace(data, textReplaceMap[Head(order)].k,
                             textReplaceMap[Head(order)].v), Tail(order))

----------------------------------------------------------------------------
(* Fonts, alignment, language.                                             *)

SetFont(m, font) ==
    IF font \in {Str_A, Str_B, Str_C}
    THEN WriteString(m, <<ESC, 77>> \o
             FmtC(CASE font = Str_A -> 0 [] font = Str_B -> 1 [] font = Str_C -> 2))
    ELSE Fatal(m)

SetAlign(m, align) ==
    IF align \in {Str_left, Str_center, Str_right}
    THEN WriteString(m, <<ESC, 97>> \o
             FmtC(CASE align = Str_left -> 0 [] align = Str_center -> 1
                    [] align = Str_right -> 2))
    ELSE Fatal(m)

\* the switch of SetLang, in the order of its cases
Langs == <<Str_en, Str_fr, Str_de, Str_uk, Str_da, Str_sv, Str_it, Str_es, Str_ja, Str_no>>

SetLang(m, lang) ==
    IF \E l \in 1..Len(Langs) : Langs[l] = lang
    THEN WriteString(m, <<ESC, 82>> \o
             FmtC((CHOOSE l \in 1..Len(Langs) : Langs[l] = lang) - 1))
    ELSE Fatal(m)

----------------------------------------------------------------------------
(* Nodes.                                                                  *)

Has(params, key) == key \in DOMAIN params

\* v == "true" || v == "1"
Truthy(v) == v = Str_true \/ v = Str_1

\* if v, ok := params[key]; ok && (v == "true" || v == "1")
On(params, key) == Has(params, key) /\ Truthy(params[key])

\* the align branch of Text
TextAlign(m, params) == IF Has(params, "align") THEN SetAlign(m, params["align"]) ELSE m

\* the lang branch of Text
TextLang(m, params) == IF Has(params, "lang") THEN SetLang(m, params["lang"]) ELSE m

\* the smooth branch of Text
TextSmooth(m, params) == IF On(params, "smooth") THEN SetSmooth(m, 1) ELSE m

\* the em branch of Text
TextEmphasize(m, params) == IF On(params, "em") THEN SetEmphasize(m, 1) ELSE m

\* the ul branch of Text with an else that lowers the toggle
TextUnderlineOrOff(m, params) ==
    IF On(params, "ul") THEN SetUnderline(m, 1)
    ELSE IF Has(params, "ul") THEN SetUnderline(m, 0) ELSE m

\* the ul branch of Text
TextUnderline(m, params) == IF On(params, "ul") THEN SetUnderline(m, 1) ELSE m

\* the reverse branch of Text
TextReverse(m, params) == IF On(params, "reverse") THEN SetReverse(m, 1) ELSE m

\* the rotate branch of Text
TextRotate(m, params) == IF On(params, "rotate") THEN SetRotate(m, 1) ELSE m

\* the dw branch of Text
TextDw(m, params) == IF On(params, "dw") THEN SetFontSize(m, 2, m.p.height) ELSE m

\* the dh branch of Text
TextDh(m, params) == IF On(params, "dh") THEN SetFontSize(m, m.p.width, 2) ELSE m

\* font[5:6] panics when font has fewer than six bytes
TextFont(m, font) ==
    IF m.st # "running" THEN m
    ELSE IF Len(font) < 6 THEN [m EXCEPT !.st = "panic"]
    ELSE SetFont(m, ToUpper(Slice(font, 5, 6)))

\* the width branch of Text
TextWidth(m, width) ==
    IF AtoiOk(width) THEN SetFontSize(m, Uint8(Atoi(width)), m.p.height) ELSE Fatal(m)

\* the height branch of Text
TextHeight(m, height) ==
    IF AtoiOk(height) THEN SetFontSize(m, m.p.width, Uint8(Atoi(height))) ELSE Fatal(m)

\* the x branch of Text
TextX(m, x) == IF AtoiOk(x) THEN SendMoveX(m, Uint16(Atoi(x))) ELSE Fatal(m)

\* the y branch of Text, and the unit branch of Feed
TextY(m, y) == IF AtoiOk(y) THEN SendMoveY(m, Uint16(Atoi(y))) ELSE Fatal(m)

\* the last statements of Text
TextData(m, data) == IF Len(data) > 0 THEN WriteString(m, data) ELSE m

\* Text with underline set before emphasize
TextUnderlineFirst(m, params, data, order) ==
    LET m1  == TextAlign(m, params)
        m2  == TextLang(m1, params)
        m3  == TextSmooth(m2, params)
        m4  == TextUnderline(m3, params)
        m5  == TextEmphasize(m4, params)
        m6  == TextReverse(m5, params)
        m7  == TextRotate(m6, params)
        m8  == IF Has(params, "font") THEN TextFont(m7, params["font"]) ELSE m7
        m9  == TextDw(m8, params)
        m10 == TextDh(m9, params)
        m11 == IF Has(params, "width") THEN TextWidth(m10, params["width"]) ELSE m10
        m12 == IF Has(params, "height") THEN TextHeight(m11, params["height"]) ELSE m11
        m13 == IF Has(params, "x") THEN TextX(m12, params["x"]) ELSE m12
        m14 == IF Has(params, "y") THEN TextY(m13, params["y"]) ELSE m13
    IN  TextData(m14, textReplace(data, order))

Text(m, params, data, order) ==
    LET m1  == TextAlign(m, params)
        m2  == TextLang(m1, params)
        m3  == TextSmooth(m2, params)
        m4  == TextEmphasize(m3, params)
        m5  == TextUnderline(m4, params)
        m6  == TextReverse(m5, params)
        m7  == TextRotate(m6, params)
        m8  == IF Has(params, "font") THEN TextFont(m7, params["font"]) ELSE m7
        m9  == TextDw(m8, params)
        m10 == TextDh(m9, params)
        m11 == IF Has(params, "width") THEN TextWidth(m10, params["width"]) ELSE m10
        m12 == IF Has(params, "height") THEN TextHeight(m11, params["height"]) ELSE m11
        m13 == IF Has(params, "x") THEN TextX(m12, params["x"]) ELSE m12
        m14 == IF Has(params, "y") THEN TextY(m13, params["y"]) ELSE m13
    IN  TextData(m14, textReplace(data, order))

\* the line branch of Feed
FeedLine(m, l) == IF AtoiOk(l) THEN FormfeedN(m, Atoi(l)) ELSE Fatal(m)

\* Feed without the reset of the toggles
FeedStale(m, params) ==
    LET m1 == IF Has(params, "line") THEN FeedLine(m, params["line"]) ELSE m
        m2 == IF Has(params, "unit") THEN TextY(m1, params["unit"]) ELSE m1
    IN  SendUnderline(SendFontSize(SendUpsidedown(SendUnderline(SendReverse(
            SendSmooth(SendRotate(SendEmphasize(Linefeed(m2)))))))))

Feed(m, params) ==
    LET m1 == IF Has(params, "line") THEN FeedLine(m, params["line"]) ELSE m
        m2 == IF Has(params, "unit") THEN TextY(m1, params["unit"]) ELSE m1
    IN  SendUnderline(SendFontSize(SendUpsidedown(SendUnderline(SendReverse(
            SendSmooth(SendRotate(SendEmphasize(reset(Linefeed(m2))))))))))

FeedAndCut(m, params) ==
    Cut(IF Has(params, "type") /\ params["type"] = Str_feed THEN Formfeed(m) ELSE m)

\* the switch of Barcode
BarcodeCode(format) ==
    CASE format = 0 -> <<0>> [] format = 1 -> <<1>> [] format = 2 -> <<2>>
      [] format = 3 -> <<3>> [] format = 4 -> <<4>> [] format = 73 -> <<73>>
      [] OTHER -> <<>>

\* Barcode with the format 69 terminated as the formats below it
BarcodeTerminated69(m, barcode, format) ==
    LET m1 == SetAlign(reset(m), Str_center)
        m2 == IF format > 69
              THEN WriteString(m1, <<GS, 107>> \o BarcodeCode(format)
                                   \o FmtV(Len(barcode)) \o barcode)
              ELSE IF format <= 69
              THEN WriteString(m1, <<GS, 107>> \o BarcodeCode(format) \o barcode \o <<0>>)
              ELSE m1
    IN  WriteString(m2, barcode)

Barcode(m, barcode, format) ==
    LET m1 == SetAlign(reset(m), Str_center)
        m2 == IF format > 69
              THEN WriteString(m1, <<GS, 107>> \o BarcodeCode(format)
                                   \o FmtV(Len(barcode)) \o barcode)
              ELSE IF format < 69
              THEN WriteString(m1, <<GS, 107>> \o BarcodeCode(format) \o barcode \o <<0>>)
              ELSE m1
    IN  WriteString(m2, barcode)

gSend(m, mode, fn, data) ==
    Write(Write(WriteString(m, <<ESC, 40, 76>>),
                <<(Len(data) + 2) % 256, Uint8((Len(data) + 2) \div 256), mode, fn>>),
          data)

\* the value of a character of the standard base64 alphabet, -1 for any other
B64Value(c) ==
    IF c >= 65 /\ c <= 90 THEN c - 65
    ELSE IF c >= 97 /\ c <= 122 THEN c - 71
    ELSE IF c >= 48 /\ c <= 57 THEN c + 4
    ELSE IF c = 43 THEN 62
    ELSE IF c = 47 THEN 63
    ELSE 0 - 1

\* the decoder skips carriage returns and line feeds
B64Strip(s) == SelectSeq(s, LAMBDA c : c \notin {10, 13})

\* one group of four characters is well formed; last: it ends the input
B64QuantumOk(q, last) ==
    /\ B64Value(q[1]) >= 0
    /\ B64Value(q[2]) >= 0
    /\ \/ B64Value(q[3]) >= 0 /\ B64Value(q[4]) >= 0
       \/ last /\ B64Value(q[3]) >= 0 /\ q[4] = 61
       \/ last /\ q[3] = 61 /\ q[4] = 61

B64Quantum(q) ==
    LET v(i) == IF q[i] = 61 THEN 0 ELSE B64Value(q[i])
        n == (v(1) * 262144) + (v(2) * 4096) + (v(3) * 64) + v(4)
        all == <<n \div 65536, (n \div 256) % 256, n % 256>>
    IN  IF q[3] = 61 THEN SubSeq(all, 1, 1)
        ELSE IF q[4] = 61 THEN SubSeq(all, 1, 2)
        ELSE all

\* base64.StdEncoding.DecodeString(s) returns a nil error
B64Ok(s) ==
    LET t == B64Strip(s)
    IN  /\ Len(t) % 4 = 0
        /\ \A g \in 1..(Len(t) \div 4) :
              B64QuantumOk(SubSeq(t, (4 * g) - 3, 4 * g), g = Len(t) \div 4)

RECURSIVE B64Groups(_)
B64Groups(t) ==
    IF t = <<>> THEN <<>>
    ELSE B64Quantum(SubSeq(t, 1, 4)) \o B64Groups(SubSeq(t, 5, Len(t)))

\* base64.StdEncoding.DecodeString(s), where B64Ok(s)
B64Decode(s) == B64Groups(B64Strip(s))

Image(m, params, data) ==
    LET m1 == IF Has(params, "align") THEN SetAlign(m, params["align"]) ELSE m
        m2 == IF Has(params, "width") THEN m1 ELSE Fatal(m1)
        m3 == IF Has(params, "height") THEN m2 ELSE Fatal(m2)
        m4 == IF m3.st = "running" /\ ~AtoiOk(params["width"]) THEN Fatal(m3) ELSE m3
        m5 == IF m4.st = "running" /\ ~AtoiOk(params["height"]) THEN Fatal(m4) ELSE m4
        m6 == IF B64Ok(data) THEN m5 ELSE Fatal(m5)
    IN  IF m6.st # "running" THEN m6
        ELSE gSend(gSend(m6, 48, 112, <<48, 1, 1, 49>> \o B64Decode(data)), 48, 50, <<>>)

\* WriteNode with a default case that opens the drawer
WriteNodeDefaultPulse(m, name, params, data, order) ==
    CASE name = "text" -> Text(m, params, data, order)
      [] name = "feed" -> Feed(m, params)
      [] name = "cut" -> FeedAndCut(m, params)
      [] name = "image" -> Image(m, params, data)
      [] OTHER -> Pulse(m)

\* the switch of WriteNode; what precedes it only logs
WriteNode(m, name, params, data, order) ==
    CASE name = "text" -> Text(m, params, data, order)
      [] name = "feed" -> Feed(m, params)
      [] name = "cut" -> FeedAndCut(m, params)
      [] name = "pulse" -> Pulse(m)
      [] name = "image" -> Image(m, params, data)
      [] OTHER -> m

----------------------------------------------------------------------------
(* Inputs.                                                                 *)

FailAts == 0..MaxFailAt

ToggleArgs == 0..MaxToggle

FontArgs == (0..MaxFontArg) \cup {255}

\* the maps with at most n of the keys, the value of key k drawn from vals[k]
RECURSIVE MapsUpTo(_, _, _)
MapsUpTo(keys, vals, n) ==
    IF n = 0 \/ keys = {} THEN {<<>>}
    ELSE LET k == CHOOSE x \in keys : TRUE
         IN  MapsUpTo(keys \ {k}, vals, n)
               \cup {g @@ (k :> v) : g \in MapsUpTo(keys \ {k}, vals, n - 1), v \in vals[k]}

\* the members of a set of numbers, ascending
RECURSIVE Ascending(_)
Ascending(S) ==
    IF S = {} THEN <<>>
    ELSE LET least == CHOOSE x \in S : \A y \in S : x <= y
         IN  <<least>> \o Ascending(S \ {least})

\* The traversal of textReplaceMap that visits the entries of A after the
\* ampersand entry (the ninth) and the others before it.  An entry other than
\* the ampersand's yields one byte that is part of no key, and two keys never
\* overlap in a text (each is '&', bytes other than '&' and ';', then ';'),
\* so a traversal's result depends on no more than the entries that follow the
\* ampersand entry.
AmpBefore(A) == Ascending((1..8) \ A) \o <<9>> \o Ascending(A)

\* every traversal, up to the order that makes no difference
Orders == {AmpBefore(A) : A \in SUBSET (1..8)}

\* the ampersand entry last, and first
TwoOrders == {AmpBefore({}), AmpBefore(1..8)}

----------------------------------------------------------------------------
(* The state machine: one action for each exported operation of a Printer. *)
(* The state after Open is the zero value of the struct.                   *)

\* no function of the spooler side is running
NoFrame == [pc |-> "none"]

Init ==
    /\ p = ZeroPrinter
    /\ out = <<>>
    /\ op = [name |-> "Open"]
    /\ status = "running"
    /\ handle = "open"
    /\ sys = <<>>
    /\ frame = NoFrame

\* the operation o runs to its end, or to the death of the process, as m
Do(o, m) ==
    /\ status = "running"
    /\ op' = o
    /\ p' = m.p
    /\ out' = m.w
    /\ status' = m.st
    /\ UNCHANGED <<handle, sys, frame>>

CallInit(F) ==
    \E f \in F : Do([name |-> "Init"], PrinterInit(Machine(p, f)))

CallSetFontSize(W, F) ==
    \E width \in W, height \in W, f \in F :
        Do([name |-> "SetFontSize", width |-> width, height |-> height],
           SetFontSize(Machine(p, f), width, height))

CallSendFontSize(F) ==
    \E f \in F : Do([name |-> "SendFontSize"], SendFontSize(Machine(p, f)))

CallSetUnderline(V, F) ==
    \E v \in V, f \in F :
        Do([name |-> "SetUnderline", v |-> v], SetUnderline(Machine(p, f), v))

CallSetEmphasize(V, F) ==
    \E v \in V, f \in F :
        Do([name |-> "SetEmphasize", v |-> v], SetEmphasize(Machine(p, f), v))

CallSetUpsidedown(V, F) ==
    \E v \in V, f \in F :
        Do([name |-> "SetUpsidedown", v |-> v], SetUpsidedown(Machine(p, f), v))

CallSetRotate(V, F) ==
    \E v \in V, f \in F :
        Do([name |-> "SetRotate", v |-> v], SetRotate(Machine(p, f), v))

CallSetReverse(V, F) ==
    \E v \in V, f \in F :
        Do([name |-> "SetReverse", v |-> v], SetReverse(Machine(p, f), v))

CallSetSmooth(V, F) ==
    \E v \in V, f \in F :
        Do([name |-> "SetSmooth", v |-> v], SetSmooth(Machine(p, f), v))

CallPulse(F) ==
    \E f \in F : Do([name |-> "Pulse"], Pulse(Machine(p, f)))

CallFormfeedN(N, F) ==
    \E n \in N, f \in F : Do([name |-> "FormfeedN", n |-> n], FormfeedN(Machine(p, f), n))

CallWriteString(D, F) ==
    \E data \in D, f \in F :
        Do([name |-> "WriteString", data |-> data], WriteString(Machine(p, f), data))

CallText(P, D, O, F) ==
    \E params \in P, data \in D, order \in O, f \in F :
        Do([name |-> "Text", params |-> params, data |-> data],
           Text(Machine(p, f), params, data, order))

CallFeed(P, F) ==
    \E params \in P, f \in F :
        Do([name |-> "Feed", params |-> params], Feed(Machine(p, f), params))

CallFeedAndCut(P, F) ==
    \E params \in P, f \in F :
        Do([name |-> "FeedAndCut", params |-> params], FeedAndCut(Machine(p, f), params))

CallBarcode(B, N, F) ==
    \E barcode \in B, format \in N, f \in F :
        Do([name |-> "Barcode", barcode |-> barcode, format |-> format],
           Barcode(Machine(p, f), barcode, format))

CallImage(P, D, F) ==
    \E params \in P, data \in D, f \in F :
        Do([name |-> "Image", params |-> params, data |-> data],
           Image(Machine(p, f), params, data))

CallWriteNode(N, P, D, O, F) ==
    \E node \in N, params \in P, data \in D, order \in O, f \in F :
        Do([name |-> "WriteNode", node |-> node, params |-> params, data |-> data],
           WriteNode(Machine(p, f), node, params, data, order))

----------------------------------------------------------------------------
(* Font size: Init, SetFontSize over every argument, SendFontSize.         *)

NextFontSize ==
    \/ CallInit(FailAts)
    \/ CallSetFontSize(FontArgs, FailAts)
    \/ CallSendFontSize(FailAts)

SpecFontSize == Init /\ [][NextFontSize]_vars

\* C1: for width and height in 1..8, SetFontSize issues one write, GS '!'
\* and the single byte ((width-1)<<4)|(height-1), and the session then holds
\* exactly (width, height).
C1_SetFontSizeEmits ==
    (op.name = "SetFontSize" /\ op.width \in 1..8 /\ op.height \in 1..8)
        => /\ status = "running"
           /\ Len(out) = 1
           /\ out[1].b = <<29, 33, (16 * (op.width - 1)) + (op.height - 1)>>
           /\ p.width = op.width
           /\ p.height = op.height

C1_Witness ==
    /\ op.name = "SetFontSize"
    /\ op.width = 8
    /\ op.height = 3
    /\ out = <<[b |-> <<29, 33, 114>>, ok |-> TRUE]>>
    /\ p.width = 8
    /\ p.height = 3

\* C2: SetFontSize with a width or a height outside 1..8 ends the process
\* in a fatal error, issues no write and leaves the stored width and height
\* (and every other field) as they were.
C2_SetFontSizeRejects ==
    [][(op'.name = "SetFontSize" /\ ~(op'.width \in 1..8 /\ op'.height \in 1..8))
          => (status' = "fatal" /\ out' = <<>> /\ p' = p)]_vars

C2_Witness ==
    /\ op.name = "SetFontSize"
    /\ op.width = 9
    /\ op.height = 1
    /\ status = "fatal"
    /\ out = <<>>
    /\ p.width = 2
    /\ p.height = 5

----------------------------------------------------------------------------
(* Feed, from every state the setters reach.                               *)

Str_2 == <<50>>                                \* "2"
Str_200 == <<50, 48, 48>>                      \* "200"
Str_300 == <<51, 48, 48>>                      \* "300"
Str_abc == <<97, 98, 99>>                      \* "abc"

\* a rejected size, and two accepted ones
SomeFontArgs == {0, 2, 8}

FeedVals == [k \in {"line", "unit"} |->
                IF k = "line" THEN {Str_2, Str_200, Str_abc} ELSE {Str_300, Str_abc}]

FeedParams == MapsUpTo({"line", "unit"}, FeedVals, 2)

Setters(V, F) ==
    \/ CallSetUnderline(V, F)
    \/ CallSetEmphasize(V, F)
    \/ CallSetUpsidedown(V, F)
    \/ CallSetRotate(V, F)
    \/ CallSetReverse(V, F)
    \/ CallSetSmooth(V, F)

NextFeed ==
    \/ CallInit(FailAts)
    \/ Setters(ToggleArgs, FailAts)
    \/ CallSetFontSize(SomeFontArgs, FailAts)
    \/ CallFeed(FeedParams, FailAts)

SpecFeed == Init /\ [][NextFeed]_vars

\* the byte strings of the writes issued, in order
Writes(o) == [i \in 1..Len(o) |-> o[i].b]

\* what Feed issues before the linefeed: a form feed (ESC 'd' and the count)
\* if line is given, then a Y move (GS '$' and two bytes) if unit is given
FeedHeadOk(head, params) ==
    LET nl == IF "line" \in DOMAIN params THEN 1 ELSE 0
        nu == IF "unit" \in DOMAIN params THEN 1 ELSE 0
    IN  /\ Len(head) = nl + nu
        /\ nl = 1 => Len(head[1]) >= 3 /\ SubSeq(head[1], 1, 2) = <<27, 100>>
        /\ nu = 1 => Len(head[nl + 1]) = 4 /\ SubSeq(head[nl + 1], 1, 2) = <<29, 36>>

\* a Feed has returned, having issued the writes tail after its optional
\* form feed and Y move, and the session is all defaults
FeedEnds(tail) ==
    /\ Len(out) >= Len(tail)
    /\ SubSeq(Writes(out), Len(out) - Len(tail) + 1, Len(out)) = tail
    /\ FeedHeadOk(SubSeq(Writes(out), 1, Len(out) - Len(tail)), op.params)
    /\ p = [width |-> 1, height |-> 1, underline |-> 0, emphasize |-> 0,
            upsidedown |-> 0, rotate |-> 0, reverse |-> 0, smooth |-> 0]

\* C3 as amended: a Feed that returns has issued the optional form feed and
\* Y move, one linefeed, and then the default-valued sequences in the order
\* emphasize, rotate, smooth, reverse, underline, upside-down, font size,
\* underline again; the session is then all defaults.  A Feed whose line and
\* unit parse as integers returns.
C3_FeedOrder ==
    op.name = "Feed" =>
        /\ status = "running" =>
               FeedEnds(<< <<10>>, <<27, 71, 0>>, <<27, 82, 0>>, <<29, 98, 0>>,
                           <<29, 66, 0>>, <<27, 45, 0>>, <<27, 123, 0>>,
                           <<29, 33, 0>>, <<27, 45, 0>> >>)
        /\ (\A k \in DOMAIN op.params : op.params[k] # Str_abc) => status = "running"

C3_Witness ==
    /\ op.name = "Feed"
    /\ DOMAIN op.params = {"line", "unit"}
    /\ status = "running"
    /\ Len(out) = 11
    /\ out[1].ok = FALSE
    /\ out[11].b = <<27, 45, 0>>

\* C3 as claimed: the two underline sequences follow one another, before
\* upside-down and font size.
C3_FeedOrderAsClaimed ==
    (op.name = "Feed" /\ status = "running") =>
        FeedEnds(<< <<10>>, <<27, 71, 0>>, <<27, 82, 0>>, <<29, 98, 0>>,
                    <<29, 66, 0>>, <<27, 45, 0>>, <<27, 45, 0>>, <<27, 123, 0>>,
                    <<29, 33, 0>> >>)

----------------------------------------------------------------------------
(* textReplace, on texts of up to MaxTokens tokens.                        *)

MaxTokens == 3

Str_AmpLt == <<38, 97, 109, 112, 59, 108, 116, 59>>   \* "&amp;lt;"

\* entities, pieces of entities and a letter
Tokens ==
    { <<38, 97, 109, 112, 59>>,      \* "&amp;"
      <<38, 108, 116, 59>>,          \* "&lt;"
      <<108, 116, 59>>,              \* "lt;"
      <<38, 35, 57, 59>>,            \* "&#9;"
      <<35, 120, 65, 59>>,           \* "#xA;"
      <<97, 109, 112, 59>>,          \* "amp;"
      <<97>> }                       \* "a"

RECURSIVE TextsUpTo(_)
TextsUpTo(n) ==
    IF n = 0 THEN {<<>>}
    ELSE TextsUpTo(n - 1) \cup {t \o d : t \in Tokens, d \in TextsUpTo(n - 1)}

Texts == TextsUpTo(MaxTokens)

\* a text is handed to textReplace
InitReplace ==
    /\ p = ZeroPrinter
    /\ out = <<>>
    /\ op \in {[name |-> "data", data |-> data] : data \in Texts}
    /\ status = "running"
    /\ handle = "open"
    /\ sys = <<>>
    /\ frame = NoFrame

CallTextReplace(O) ==
    \E order \in O :
        /\ op.name = "data"
        /\ op' = [name |-> "textReplace", data |-> op.data,
                  result |-> textReplace(op.data, order)]
        /\ UNCHANGED <<p, out, status, handle, sys, frame>>

NextReplace == CallTextReplace(Orders)

SpecReplace == InitReplace /\ [][NextReplace]_vars

\* C4: whatever the traversal, textReplace gives what the traversal with the
\* ampersand entry last gives; "&amp;lt;" gives "&lt;", never "<".
C4_AmpersandLast ==
    op.name = "textReplace" =>
        /\ op.result = textReplace(op.data, <<1, 2, 3, 4, 5, 6, 7, 8, 9>>)
        /\ op.data = Str_AmpLt => (op.result = <<38, 108, 116, 59>> /\ op.result # <<60>>)

----------------------------------------------------------------------------
(* The session: every operation of the formatter, in any order.            *)

Str_12345 == <<49, 50, 51, 52, 53>>            \* "12345"
Str_AAAA == <<65, 65, 65, 65>>                 \* "AAAA", base64 of three zero bytes
Str_3 == <<51>>                                \* "3"
Str_8 == <<56>>                                \* "8"
Str_font_b == <<102, 111, 110, 116, 95, 98>>   \* "font_b"
Str_fontB == <<102, 111, 110, 116, 66>>        \* "fontB"
Str_aLtb == <<97, 38, 108, 116, 59, 98>>       \* "a&lt;b"

\* the values the node operations drive the toggles with
OnOff == {0, 1}

\* a rejected size and an accepted one
TwoFontArgs == {0, 2}

\* a value for each key of Text that Text accepts (and, for a toggle, acts on)
GoodVals ==
    [k \in {"align", "lang", "smooth", "em", "ul", "reverse", "rotate", "font",
            "dw", "dh", "width", "height", "x", "y"} |->
        CASE k = "align" -> {Str_center}
          [] k = "lang" -> {Str_fr}
          [] k \in {"smooth", "ul", "rotate", "dw"} -> {Str_true}
          [] k \in {"em", "reverse", "dh"} -> {Str_1}
          [] k = "font" -> {Str_font_b}
          [] k = "width" -> {Str_3}
          [] k = "height" -> {Str_8}
          [] k = "x" -> {Str_300}
          [] k = "y" -> {Str_2}]

\* a value for each key of Text that Text rejects, or does not act on
BadVals ==
    [k \in DOMAIN GoodVals |->
        CASE k \in {"align", "lang", "width", "height", "x", "y"} -> {Str_abc}
          [] k \in {"smooth", "ul", "rotate", "dw"} -> {Str_false}
          [] k \in {"em", "reverse", "dh"} -> {Str_0}
          [] k = "font" -> {Str_fontB}]

\* parameters for each kind of node at once
NodeParams ==
    {<<>>,
     [k \in {"ul", "width", "height", "line", "type"} |->
        CASE k = "ul" -> Str_true [] k = "type" -> Str_feed [] OTHER -> Str_2]}

SessionTextParams ==
    MapsUpTo({"align", "ul", "dw", "height"}, GoodVals, 1)
        \cup MapsUpTo({"em", "width"}, BadVals, 1)

Next ==
    \/ CallInit(FailAts)
    \/ Setters(OnOff, FailAts)
    \/ CallSetFontSize(TwoFontArgs, FailAts)
    \/ CallSendFontSize(FailAts)
    \/ CallPulse(FailAts)
    \/ CallText(SessionTextParams, {<<>>, Str_aLtb}, TwoOrders, FailAts)
    \/ CallFeed({<<>>, [k \in {"line"} |-> Str_2]}, FailAts)
    \/ CallFeedAndCut(NodeParams, FailAts)
    \/ CallBarcode({<<>>, Str_12345}, {4, 69, 70}, FailAts)
    \/ CallImage(NodeParams, {Str_AAAA, Str_abc}, FailAts)
    \/ CallWriteNode({"text", "feed", "cut", "pulse", "image", "barcode", ""},
                     NodeParams, {Str_AAAA}, {AmpBefore({})}, FailAts)

Spec == Init /\ [][Next]_vars

\* C5: in a node operation nothing is written after a write that failed.
C5_StopsAtFailedWrite ==
    op.name \in {"Text", "Feed", "FeedAndCut", "Barcode", "Image"} =>
        \A i \in 1..Len(out) : ~out[i].ok => i = Len(out)

\* C7: in every state of a session, from Open on, the font width and the
\* font height are in 1..8.
C7_FontSizeInRange == p.width \in 1..8 /\ p.height \in 1..8

\* the last of the writes o that begins with the two bytes prefix is
\* prefix and the one byte v
LastSent(o, prefix, v) ==
    /\ \E i \in 1..Len(o) : IsPrefix(prefix, o[i].b)
    /\ LET last == CHOOSE i \in 1..Len(o) :
                       /\ IsPrefix(prefix, o[i].b)
                       /\ \A j \in (i + 1)..Len(o) : ~IsPrefix(prefix, o[j].b)
       IN  o[last].b = prefix \o <<v>>

\* C8: once the session is initialised (its font size is no longer zero),
\* an operation other than Init that returns, having changed the stored
\* value of a toggle, emits that toggle's escape sequence with the new value, as the last
\* sequence it emits for the toggle.
C8_ChangeIsEmitted ==
    [][(p.width # 0 /\ op'.name # "Init" /\ status' = "running") =>
          /\ p'.underline # p.underline => LastSent(out', <<27, 45>>, p'.underline)
          /\ p'.emphasize # p.emphasize => LastSent(out', <<27, 71>>, p'.emphasize)
          /\ p'.upsidedown # p.upsidedown => LastSent(out', <<27, 123>>, p'.upsidedown)
          /\ p'.rotate # p.rotate => LastSent(out', <<27, 82>>, p'.rotate)
          /\ p'.reverse # p.reverse => LastSent(out', <<29, 66>>, p'.reverse)
          /\ p'.smooth # p.smooth => LastSent(out', <<29, 98>>, p'.smooth)
          /\ (p'.width # p.width \/ p'.height # p.height) =>
                 LastSent(out', <<29, 33>>, (16 * (p'.width - 1)) + (p'.height - 1))]_vars

----------------------------------------------------------------------------
(* WriteNode.                                                              *)

NodeNames == {"text", "feed", "cut", "pulse", "image", "barcode", ""}

NextNode ==
    \/ CallInit(FailAts)
    \/ CallSetUnderline(OnOff, FailAts)
    \/ CallSetFontSize(TwoFontArgs, FailAts)
    \/ CallWriteNode(NodeNames, NodeParams \cup MapsUpTo({"em", "width"}, BadVals, 1),
                     {<<>>, Str_AAAA, Str_aLtb}, TwoOrders, FailAts)

SpecNode == Init /\ [][NextNode]_vars

\* the step is the operation that ends as m
Ends(m) == p' = m.p /\ out' = m.w /\ status' = m.st

\* C6: WriteNode does what the one operation named by the node does: Text
\* for text, Feed for feed, FeedAndCut for cut, Pulse for pulse, Image for
\* image; for any other name it issues no write, changes no field of the
\* session and ends in no error.
C6_WriteNodeRoutes ==
    [][op'.name = "WriteNode" =>
          \E f \in FailAts, order \in TwoOrders :
              LET m == Machine(p, f)
              IN  /\ op'.node = "text" => Ends(Text(m, op'.params, op'.data, order))
                  /\ op'.node = "feed" => Ends(Feed(m, op'.params))
                  /\ op'.node = "cut" => Ends(FeedAndCut(m, op'.params))
                  /\ op'.node = "pulse" => Ends(Pulse(m))
                  /\ op'.node = "image" => Ends(Image(m, op'.params, op'.data))
                  /\ op'.node \notin {"text", "feed", "cut", "pulse", "image"} =>
                         (out' = <<>> /\ p' = p /\ status' = "running")]_vars

C6_Witness ==
    /\ op.name = "WriteNode"
    /\ op.node = "barcode"
    /\ op.params # <<>>
    /\ out = <<>>
    /\ status = "running"
    /\ p.underline = 1
    /\ p.width = 2

----------------------------------------------------------------------------
(* Text, called once on each state that Init, SetFontSize and SetUnderline *)
(* reach: a behaviour ends with its Text.                                  *)

\* the most keys in a parameter map of Text, but for the map with every key
MaxTextKeys == 2

TextKeys == DOMAIN GoodVals

TextParams ==
    MapsUpTo(TextKeys, GoodVals, MaxTextKeys)
        \cup MapsUpTo(TextKeys, BadVals, 1)
        \cup {[k \in TextKeys |-> CHOOSE v \in GoodVals[k] : TRUE]}

NextText ==
    /\ op.name # "Text"
    /\ \/ CallInit(FailAts)
       \/ CallSetFontSize(SomeFontArgs, FailAts)
       \/ CallSetUnderline(OnOff, FailAts)
       \/ CallText(TextParams, {<<>>, Str_aLtb, Str_AmpLt}, TwoOrders, FailAts)

SpecText == Init /\ [][NextText]_vars

\* The font width and height after the dw, dh, width and height parameters
\* of Text, from the width w and the height h before.
C9_Width(params, w) ==
    IF "width" \in DOMAIN params /\ AtoiOk(params["width"]) THEN Atoi(params["width"])
    ELSE IF "dw" \in DOMAIN params /\ params["dw"] \in {Str_true, Str_1} THEN 2
    ELSE w

C9_Height(params, h) ==
    IF "height" \in DOMAIN params /\ AtoiOk(params["height"]) THEN Atoi(params["height"])
    ELSE IF "dh" \in DOMAIN params /\ params["dh"] \in {Str_true, Str_1} THEN 2
    ELSE h

\* The sequences of the claim, in its order, for the parameters present
\* (truthy, if toggles) and accepted; w and h are the font width and height
\* before the call.
C9_Sequences(params, w, h) ==
    LET has(k) == k \in DOMAIN params
        on(k) == has(k) /\ params[k] \in {Str_true, Str_1}
        num(k) == has(k) /\ AtoiOk(params[k])
        when(c, b) == IF c THEN <<b>> ELSE <<>>
        size(a, b) == <<29, 33, (16 * (a - 1)) + (b - 1)>>
        w1 == IF on("dw") THEN 2 ELSE w
        h1 == IF on("dh") THEN 2 ELSE h
        w2 == C9_Width(params, w)
    IN  when(has("align") /\ params["align"] = Str_center, <<27, 97, 1>>)
        \o when(has("lang") /\ params["lang"] = Str_fr, <<27, 82, 1>>)
        \o when(on("smooth"), <<29, 98, 1>>)
        \o when(on("em"), <<27, 71, 1>>)
        \o when(on("ul"), <<27, 45, 1>>)
        \o when(on("reverse"), <<29, 66, 1>>)
        \o when(on("rotate"), <<27, 82, 1>>)
        \o when(has("font") /\ params["font"] = Str_font_b, <<27, 77, 1>>)
        \o when(on("dw"), size(2, h))
        \o when(on("dh"), size(w1, 2))
        \o when(num("width"), size(Atoi(params["width"]), h1))
        \o when(num("height"), size(w2, Atoi(params["height"])))
        \o when(num("x"), <<27, 36, Atoi(params["x"]) % 256, Atoi(params["x"]) \div 256>>)
        \o when(num("y"), <<29, 36, Atoi(params["y"]) % 256, Atoi(params["y"]) \div 256>>)

\* every parameter present has a value Text accepts, and the font size is
\* set if a parameter is to change it
C9_Accepted(params, w) ==
    /\ \A k \in DOMAIN params : params[k] \notin {Str_abc, Str_fontB}
    /\ w = 0 => \A k \in {"dw", "dh", "width", "height"} :
                    ~(k \in DOMAIN params /\ params[k] \in GoodVals[k])

\* C9: a Text that returns has issued, in the order of the claim, the
\* sequence of each parameter present (truthy, for a toggle), then the
\* payload after entity substitution unless it is empty, and nothing else;
\* a Text that dies has issued a prefix of those sequences; a Text whose
\* parameters are accepted returns.
C9_TextOrder ==
    [][op'.name = "Text" =>
          LET seqs == C9_Sequences(op'.params, p.width, p.height)
          IN  /\ status' = "running" =>
                     /\ \E order \in TwoOrders :
                            LET data == textReplace(op'.data, order)
                            IN  Writes(out') = seqs \o (IF data = <<>> THEN <<>> ELSE <<data>>)
                     /\ p'.width = C9_Width(op'.params, p.width)
                     /\ p'.height = C9_Height(op'.params, p.height)
              /\ status' # "running" => IsPrefix(Writes(out'), seqs)
              /\ C9_Accepted(op'.params, p.width) => status' = "running"]_vars

C9_Witness ==
    /\ op.name = "Text"
    /\ DOMAIN op.params = TextKeys
    /\ op.data = Str_aLtb
    /\ status = "running"
    /\ Len(out) = 15
    /\ out[9].b = <<29, 33, 23>>
    /\ out[15].b = <<97, 60, 98>>
    /\ p.width = 3
    /\ p.height = 8

----------------------------------------------------------------------------
(* Barcode, in a session of Init, SetFontSize and SetUnderline.            *)

Str_0123456789 == <<48, 49, 50, 51, 52, 53, 54, 55, 56, 57>>

BarcodeTexts == {<<>>, Str_12345, Str_AAAA, Str_0123456789}

BarcodeFormats == {0, 4, 5, 69, 70, 72, 73}

NextBarcode ==
    \/ CallInit(FailAts)
    \/ CallSetFontSize(SomeFontArgs, FailAts)
    \/ CallSetUnderline(OnOff, FailAts)
    \/ CallBarcode(BarcodeTexts, BarcodeFormats, FailAts)

SpecBarcode == Init /\ [][NextBarcode]_vars

\* C10: the bytes of a Barcode of a format above 69 that has returned are
\* the centre alignment, GS 'k', the code byte of the format if it has one,
\* one byte whose value is the length of the text, the text, and the text
\* once more.
C10_BarcodeLengthByte ==
    (op.name = "Barcode" /\ op.format > 69 /\ status = "running") =>
        Flatten(Writes(out)) =
            <<27, 97, 1, 29, 107>> \o BarcodeCode(op.format)
                \o <<Len(op.barcode)>> \o op.barcode \o op.barcode

\* C11: a Barcode of a format below 69 sends, after the centre alignment,
\* GS 'k', the code byte of the formats 0..4 and of no other, the text and
\* a NUL, then the text again; of the format 69 the centre alignment and
\* the text once; every toggle of the session is at its default after it,
\* and no format ends in a fatal error.
C11_BarcodeLowFormats ==
    (op.name = "Barcode" /\ op.format <= 69) =>
        /\ status # "fatal"
        /\ p = [width |-> 1, height |-> 1, underline |-> 0, emphasize |-> 0,
                upsidedown |-> 0, rotate |-> 0, reverse |-> 0, smooth |-> 0]
        /\ op.format < 69 =>
               Flatten(Writes(out)) =
                   <<27, 97, 1, 29, 107>>
                       \o (IF op.format \in 0..4 THEN <<op.format>> ELSE <<>>)
                       \o op.barcode \o <<0>> \o op.barcode
        /\ op.format = 69 => Flatten(Writes(out)) = <<27, 97, 1>> \o op.barcode

C11_Witness ==
    /\ op.name = "Barcode"
    /\ op.format = 69
    /\ op.barcode = Str_12345
    /\ status = "running"
    /\ Writes(out) = <<<<27, 97, 1>>, Str_12345>>

----------------------------------------------------------------------------
(* Image, in a session of Init and SetFontSize.                            *)

Str_AAAAAAPad == <<65, 65, 65, 65, 65, 65, 61, 61>>     \* "AAAAAA==", four zero bytes

ImageVals ==
    [k \in {"align", "width", "height"} |->
        IF k = "align" THEN {Str_center, Str_abc} ELSE {Str_2, Str_abc}]

ImageParams == MapsUpTo(DOMAIN ImageVals, ImageVals, 3)

ImageData == {<<>>, Str_AAAA, Str_AAAAAAPad, Str_abc}

NextImage ==
    \/ CallInit(FailAts)
    \/ CallSetFontSize(TwoFontArgs, FailAts)
    \/ CallImage(ImageParams, ImageData, FailAts)

SpecImage == Init /\ [][NextImage]_vars

\* the parameters and the payload of an Image are valid
C12_Valid(params, data) ==
    /\ {"width", "height"} \subseteq DOMAIN params
    /\ AtoiOk(params["width"])
    /\ AtoiOk(params["height"])
    /\ "align" \in DOMAIN params => params["align"] = Str_center
    /\ B64Ok(data)

\* C12: an Image of valid parameters and a valid payload of n decoded bytes
\* returns, having sent (after the alignment, if asked) ESC '(' 'L', n+6 in
\* two bytes low first, '0' 'p', '0' 1 1 '1' and the n bytes, then
\* ESC '(' 'L' 2 0 '0' '2' and nothing more.
C12_ImageTwoFrames ==
    (op.name = "Image" /\ C12_Valid(op.params, op.data)) =>
        LET dec == B64Decode(op.data)
            n == Len(dec)
        IN  /\ status = "running"
            /\ Flatten(Writes(out)) =
                   (IF "align" \in DOMAIN op.params THEN <<27, 97, 1>> ELSE <<>>)
                       \o <<27, 40, 76, (n + 6) % 256, (n + 6) \div 256, 48, 112>>
                       \o <<48, 1, 1, 49>> \o dec
                       \o <<27, 40, 76, 2, 0, 48, 50>>

----------------------------------------------------------------------------
(* The spooler queries Default, ReadNames, Jobs and DriverInfo.  A step is *)
(* one call of the entry point of the operating system and the statements  *)
(* that follow it, up to the next call or the return.  What the queries do *)
(* with a filled buffer is left out.                                       *)

\* the sizes the operating system reports as needed reach MaxGrow above
\* the first buffer of the query
MaxGrow == 3

Queries == {"Default", "ReadNames", "Jobs", "DriverInfo"}

EntryPoint(q) ==
    CASE q = "Default" -> "GetDefaultPrinter"
      [] q = "ReadNames" -> "EnumPrinters"
      [] q = "Jobs" -> "EnumJobs"
      [] q = "DriverInfo" -> "GetPrinterDriver"

\* the length of the buffer of the first call
FirstBuf(q) ==
    CASE q = "Default" -> 3
      [] q = "ReadNames" -> 1
      [] q = "Jobs" -> 1
      [] q = "DriverInfo" -> 1024 * 10

\* what an entry point may answer: success, the insufficient-buffer error
\* with the size needed, or another error
Answers(q) ==
    {[err |-> "nil", needed |-> 0], [err |-> "other", needed |-> 0]}
        \cup {[err |-> "insufficient", needed |-> n] :
                  n \in {0} \cup (FirstBuf(q)..(FirstBuf(q) + MaxGrow))}

Returned(f, err) == [f EXCEPT !.pc = "returned", !.err = err]

\* Default after an answer: pc is "first" at the first call, "second" at
\* the call with the new buffer, whose b[0] panics if its length is 0
Default(f, ans) ==
    IF ans.err = "nil" THEN Returned(f, "nil")
    ELSE IF f.pc = "second" THEN Returned(f, ans.err)
    ELSE IF ans.err # "insufficient" THEN Returned(f, ans.err)
    ELSE IF ans.needed = 0 THEN [f EXCEPT !.pc = "panic", !.buf = 0]
    ELSE [f EXCEPT !.pc = "second", !.buf = ans.needed]

\* ReadNames after an answer
ReadNames(f, ans) ==
    IF ans.err = "nil" THEN Returned(f, "nil")
    ELSE IF f.pc = "second" THEN Returned(f, ans.err)
    ELSE IF ans.err # "insufficient" THEN Returned(f, ans.err)
    ELSE IF ans.needed = 0 THEN [f EXCEPT !.pc = "panic", !.buf = 0]
    ELSE [f EXCEPT !.pc = "second", !.buf = ans.needed]

\* the loop of Jobs retrying whatever the size needed
JobsAnySize(f, ans) ==
    IF ans.err = "nil" THEN Returned(f, "nil")
    ELSE IF ans.err # "insufficient" THEN Returned(f, ans.err)
    ELSE IF ans.needed = 0 THEN [f EXCEPT !.pc = "panic", !.buf = 0]
    ELSE [f EXCEPT !.buf = ans.needed]

\* the loop of Jobs after an answer
Jobs(f, ans) ==
    IF ans.err = "nil" THEN Returned(f, "nil")
    ELSE IF ans.err # "insufficient" THEN Returned(f, ans.err)
    ELSE IF ans.needed <= f.buf THEN Returned(f, ans.err)
    ELSE [f EXCEPT !.buf = ans.needed]

\* the loop of DriverInfo after an answer
DriverInfo(f, ans) ==
    IF ans.err = "nil" THEN Returned(f, "nil")
    ELSE IF ans.err # "insufficient" THEN Returned(f, ans.err)
    ELSE IF ans.needed <= f.buf THEN Returned(f, ans.err)
    ELSE [f EXCEPT !.buf = ans.needed]

InitQuery ==
    /\ p = ZeroPrinter
    /\ out = <<>>
    /\ op \in {[name |-> q] : q \in Queries}
    /\ status = "running"
    /\ handle = "open"
    /\ sys = <<>>
    /\ frame = [pc |-> IF op.name \in {"Default", "ReadNames"} THEN "first" ELSE "loop",
                buf |-> FirstBuf(op.name), err |-> "nil"]

\* the query q after an answer
After(q, f, ans) ==
    CASE q = "Default" -> Default(f, ans)
      [] q = "ReadNames" -> ReadNames(f, ans)
      [] q = "Jobs" -> Jobs(f, ans)
      [] q = "DriverInfo" -> DriverInfo(f, ans)

\* the query q calls its entry point, is answered, and goes on
QueryCall(q) ==
    /\ op.name = q
    /\ status = "running"
    /\ frame.pc \in {"first", "second", "loop"}
    /\ \E ans \in Answers(q) :
          /\ sys' = Append(sys, [fn |-> EntryPoint(q), size |-> frame.buf,
                                 err |-> ans.err, needed |-> ans.needed])
          /\ frame' = After(q, frame, ans)
          /\ status' = IF After(q, frame, ans).pc = "panic" THEN "panic" ELSE status
    /\ UNCHANGED <<p, out, op, handle>>

NextQuery ==
    \/ QueryCall("Default")
    \/ QueryCall("ReadNames")
    \/ QueryCall("Jobs")
    \/ QueryCall("DriverInfo")

SpecQuery == InitQuery /\ [][NextQuery]_vars

\* C13: Default and ReadNames call their entry point at most twice; Jobs
\* and DriverInfo call theirs again as long as the answer is the
\* insufficient-buffer error with a size needed above the buffer's.  Every
\* call but the first follows an insufficient-buffer answer and has a
\* buffer of the size that answer reported.  Any other error ends the query
\* and is returned, as is any error of the second call of Default and
\* ReadNames, and an insufficient-buffer answer that asks for no more than
\* Jobs or DriverInfo gave.  A size needed of 0 makes Default and ReadNames
\* panic on the empty buffer.
C13_Retry ==
    LET n == Len(sys)
        once == op.name \in {"Default", "ReadNames"}
    IN  /\ once => n <= 2
        /\ \A k \in 2..n :
              /\ sys[k - 1].err = "insufficient"
              /\ sys[k].size = sys[k - 1].needed
              /\ ~once => sys[k].size > sys[k - 1].size
        /\ \A k \in 1..n : sys[k].fn = EntryPoint(op.name)
        /\ frame.pc = "returned" => n >= 1 /\ frame.err = sys[n].err
        /\ (n >= 1 /\ sys[n].err # "insufficient") => frame.pc = "returned"
        /\ (once /\ n = 2) => frame.pc = "returned"
        /\ (~once /\ n >= 1 /\ sys[n].err = "insufficient"
               /\ sys[n].needed <= sys[n].size) => frame.pc = "returned"
        /\ status = "panic" <=>
               (once /\ n = 1 /\ sys[1].err = "insufficient" /\ sys[1].needed = 0)

C13_Witness ==
    /\ op.name = "Jobs"
    /\ Len(sys) = 3
    /\ sys[2].err = "insufficient"
    /\ sys[3].size = sys[2].needed
    /\ sys[3].err = "nil"
    /\ frame.pc = "returned"
    /\ frame.err = "nil"

\* C13 as claimed: every query calls its entry point at most twice, the
\* second call after an insufficient-buffer answer and with a buffer of the
\* size needed; any other error, and any error of the second call, is
\* returned.
C13_RetryOnce ==
    LET n == Len(sys)
    IN  /\ n <= 2
        /\ n = 2 => sys[1].err = "insufficient" /\ sys[2].size = sys[1].needed
        /\ (n >= 1 /\ sys[n].err = "other") =>
               frame.pc = "returned" /\ frame.err = "other"
        /\ (n = 2 /\ sys[2].err # "nil") =>
               frame.pc = "returned" /\ frame.err = sys[2].err

----------------------------------------------------------------------------
(* Close among the formatter operations.                                   *)

\* Printer.Close: ClosePrinter(p.h) closes the handle unless it fails; no
\* field of the Printer is touched
Close(hd, ok) == IF ok THEN "closed" ELSE hd

CallClose ==
    \E ok \in BOOLEAN :
        /\ status = "running"
        /\ handle' = Close(handle, ok)
        /\ op' = [name |-> "Close", ok |-> ok]
        /\ out' = <<>>
        /\ UNCHANGED <<p, status, sys, frame>>

NextClose ==
    \/ CallInit(FailAts)
    \/ CallSetFontSize(TwoFontArgs, FailAts)
    \/ CallSetUnderline(OnOff, FailAts)
    \/ CallSetEmphasize(OnOff, FailAts)
    \/ CallPulse(FailAts)
    \/ CallClose

SpecClose == Init /\ [][NextClose]_vars

\* C14: once the handle is closed, no operation issues a WritePrinter call.
C14_NoWriteAfterClose == [][handle = "closed" => out' = <<>>]_vars

----------------------------------------------------------------------------
(* The width and height parameters of Text, in a session of Init and       *)
(* SetFontSize.                                                            *)

Str_9 == <<57>>                                \* "9"
Str_Minus1 == <<45, 49>>                       \* "-1"
Str_257 == <<50, 53, 55>>                      \* "257"
Str_Minus255 == <<45, 50, 53, 53>>             \* "-255"

SizeVals ==
    [k \in {"width", "height"} |-> {Str_0, Str_3, Str_9, Str_Minus1, Str_257, Str_Minus255}]

SizeParams == MapsUpTo(DOMAIN SizeVals, SizeVals, 2)

NextSize ==
    \/ CallInit(FailAts)
    \/ CallSetFontSize(TwoFontArgs, FailAts)
    \/ CallText(SizeParams, {<<>>}, {AmpBefore({})}, FailAts)

SpecSize == Init /\ [][NextSize]_vars

\* C15: a Text whose width and height parameters, one or both, are all
\* integers outside 1..8 ends in a fatal error, having sent no font size
\* and with the stored width and height as they were.
C15_OutOfRangeIsFatal ==
    [][(/\ op'.name = "Text"
        /\ DOMAIN op'.params # {}
        /\ \A k \in DOMAIN op'.params :
               AtoiOk(op'.params[k]) /\ Atoi(op'.params[k]) \notin 1..8)
          => /\ status' = "fatal"
             /\ out' = <<>>
             /\ p'.width = p.width
             /\ p'.height = p.height]_vars

----------------------------------------------------------------------------
(* FormfeedN, and Feed with a line parameter.                              *)

\* counts of lines within a byte: its ends, and both sides of 127
FeedCounts == {0, 1, 2, 127, 128, 200, 255}

Str_127 == <<49, 50, 55>>                      \* "127"
Str_255 == <<50, 53, 53>>                      \* "255"

LineParams == {[k \in {"line"} |-> l] : l \in {Str_0, Str_2, Str_127, Str_200, Str_255}}

NextFormfeed ==
    \/ CallInit(FailAts)
    \/ CallSetFontSize(TwoFontArgs, FailAts)
    \/ CallSetUnderline(OnOff, FailAts)
    \/ CallFormfeedN(FeedCounts, FailAts)
    \/ CallFeed(LineParams, FailAts)

SpecFormfeed == Init /\ [][NextFormfeed]_vars

\* C16: FormfeedN(N), N in 0..255, sends ESC 'd' and the one byte N and
\* nothing more; Feed with line=N sends the same three bytes first.
C16_FormfeedOneByte ==
    /\ (op.name = "FormfeedN" /\ op.n \in 0..255) =>
           Flatten(Writes(out)) = <<27, 100, op.n>>
    /\ (op.name = "Feed" /\ Atoi(op.params["line"]) \in 0..255) =>
           out[1].b = <<27, 100, Atoi(op.params["line"])>>

----------------------------------------------------------------------------
(* The operations that can pass an empty slice to Printer.Write, called    *)
(* with parameters they accept.                                            *)

ValidImageParams ==
    {[k \in {"width", "height"} |-> Str_2],
     [k \in {"align", "width", "height"} |-> IF k = "align" THEN Str_center ELSE Str_2]}

NextEmpty ==
    \/ CallInit(FailAts)
    \/ CallSetFontSize(TwoFontArgs, FailAts)
    \/ CallSetUnderline(OnOff, FailAts)
    \/ CallWriteString({<<>>, Str_AAAA, Str_12345}, FailAts)
    \/ CallBarcode({<<>>, Str_12345}, {4, 69, 70}, FailAts)
    \/ CallImage(ValidImageParams, {Str_AAAA, Str_AAAAAAPad}, FailAts)
    \/ CallText({<<>>, [k \in {"ul"} |-> Str_true]}, {<<>>, Str_AAAA}, {AmpBefore({})}, FailAts)

SpecEmpty == Init /\ [][NextEmpty]_vars

\* C17: no operation ends in the runtime failure of Printer.Write on an
\* empty slice, the only panic these operations can meet.
C17_NoEmptyWrite == status # "panic"

----------------------------------------------------------------------------
(* The toggles across Text and the operations that reset them.             *)

Toggles == {"smooth", "emphasize", "underline", "reverse", "rotate"}

\* the parameter of Text that raises a toggle
ToggleKey(t) ==
    CASE t = "smooth" -> "smooth" [] t = "emphasize" -> "em" [] t = "underline" -> "ul"
      [] t = "reverse" -> "reverse" [] t = "rotate" -> "rotate"

\* the setter of a toggle
ToggleSetter(t) ==
    CASE t = "smooth" -> "SetSmooth" [] t = "emphasize" -> "SetEmphasize"
      [] t = "underline" -> "SetUnderline" [] t = "reverse" -> "SetReverse"
      [] t = "rotate" -> "SetRotate"

ToggleVals ==
    [k \in {ToggleKey(t) : t \in Toggles} |->
        IF k \in {"ul", "smooth"} THEN {Str_true, Str_false} ELSE {Str_1, Str_0}]

\* no parameter, one, or every toggle parameter falsy
ToggleParams ==
    MapsUpTo(DOMAIN ToggleVals, ToggleVals, 1)
        \cup {[k \in DOMAIN ToggleVals |-> Str_false]}

NextToggle ==
    \/ CallInit(FailAts)
    \/ CallSetUnderline(OnOff, FailAts)
    \/ CallSetReverse(OnOff, FailAts)
    \/ CallText(ToggleParams, {Str_AAAA}, {AmpBefore({})}, FailAts)
    \/ CallFeed({<<>>}, FailAts)
    \/ CallFeedAndCut({<<>>}, FailAts)
    \/ CallBarcode({Str_12345}, {4}, FailAts)
    \/ CallWriteNode({"text", "feed"}, {<<>>, [k \in DOMAIN ToggleVals |-> Str_false]},
                     {Str_AAAA}, {AmpBefore({})}, FailAts)

SpecToggle == Init /\ [][NextToggle]_vars

\* C18: a Text (called directly or as a text node) leaves at 1 every toggle
\* that is 1, whatever its parameters; a toggle that is 1 leaves 1 only in
\* Feed, Init, Barcode or its own setter called with 0.
C18_TextKeepsToggles ==
    [][\A t \in Toggles :
          /\ (p[t] = 1 /\ (op'.name = "Text" \/ (op'.name = "WriteNode" /\ op'.node = "text")))
                => p'[t] = 1
          /\ (p[t] = 1 /\ p'[t] # 1) =>
                \/ op'.name \in {"Feed", "Init", "Barcode"}
                \/ op'.name = "WriteNode" /\ op'.node = "feed"
                \/ op'.name = ToggleSetter(t) /\ op'.v = 0]_vars

C18_Witness ==
    /\ op.name = "Text"
    /\ DOMAIN op.params = DOMAIN ToggleVals
    /\ op.params["ul"] = Str_false
    /\ status = "running"
    /\ p.underline = 1
    /\ p.reverse = 1
    /\ p.smooth = 0
    /\ Writes(out) = <<Str_AAAA>>

----------------------------------------------------------------------------
(* The print lifecycle of PrintToFile and TestPrinter                      *)
(* (src/printer_test.go).  A step is one call of the spooler, answered     *)
(* with success or an error, and the statements that follow it up to the   *)
(* next call.  frame.defers is the stack of deferred calls; they run, last *)
(* first, when the function returns, when t.Fatalf ends the test, and when *)
(* a panic unwinds.  The formatter calls of the body of TestPrinter, all   *)
(* of valid arguments, are abbreviated to Init and Cut.                    *)

Drivers == {"PrintToFile", "TestPrinter"}

InitDriver ==
    /\ p = ZeroPrinter
    /\ out = <<>>
    /\ op \in {[name |-> d, contents |-> c] : d \in Drivers, c \in {<<>>, Str_AAAA}}
    /\ status = "running"
    /\ handle = "none"
    /\ sys = <<>>
    /\ frame = [pc |-> "Default", defers |-> <<>>, err |-> "nil", panicking |-> FALSE]

\* a call of an entry point, with its answer
Called(fn, ok) == Append(sys, [fn |-> fn, ok |-> ok])

\* return err, or t.Fatalf: the deferred calls are next
Fail(f, fn) == [f EXCEPT !.pc = "unwind", !.err = fn]

\* name, err := Default(); the retry inside Default is not shown
DriverDefault ==
    /\ status = "running"
    /\ frame.pc = "Default"
    /\ \E ok \in BOOLEAN :
          /\ sys' = Called("GetDefaultPrinter", ok)
          /\ frame' = IF ok THEN [frame EXCEPT !.pc = "Open"] ELSE Fail(frame, "Default")
    /\ UNCHANGED <<p, out, op, status, handle>>

\* p, err := Open(name); p.Debug = true; if err != nil {...}; defer p.Close()
\* Open returns a nil *Printer with its error: p.Debug dereferences it
DriverOpen ==
    /\ status = "running"
    /\ frame.pc = "Open"
    /\ \E ok \in BOOLEAN :
          /\ sys' = Called("OpenPrinter", ok)
          /\ handle' = IF ok THEN "open" ELSE "nil"
          /\ frame' = IF ok THEN [frame EXCEPT !.pc = "StartDocument", !.defers = <<"Close">>]
                      ELSE [frame EXCEPT !.pc = "panic", !.panicking = TRUE]
          /\ status' = IF ok THEN status ELSE "panic"
    /\ UNCHANGED <<p, out, op>>

\* err = p.StartDocument(...); if err != nil {...}; defer p.EndDocument()
DriverStartDocument ==
    /\ status = "running"
    /\ frame.pc = "StartDocument"
    /\ \E ok \in BOOLEAN :
          /\ sys' = Called("StartDocPrinter", ok)
          /\ frame' = IF ok THEN [frame EXCEPT !.pc = "StartPage",
                                               !.defers = Append(@, "EndDocument")]
                      ELSE Fail(frame, "StartDocument")
    /\ UNCHANGED <<p, out, op, status, handle>>

\* err = p.StartPage(); if err != nil {...}
DriverStartPage ==
    /\ status = "running"
    /\ frame.pc = "StartPage"
    /\ \E ok \in BOOLEAN :
          /\ sys' = Called("StartPagePrinter", ok)
          /\ frame' = IF ok THEN [frame EXCEPT !.pc = "body"] ELSE Fail(frame, "StartPage")
    /\ UNCHANGED <<p, out, op, status, handle>>

\* the formatter calls between StartPage and EndPage; a panic in them
\* unwinds through the deferred calls
DriverBody ==
    /\ status = "running"
    /\ frame.pc = "body"
    /\ \E f \in FailAts :
          LET m == IF op.name = "PrintToFile"
                   THEN Write(PrinterInit(Machine(p, f)), op.contents)
                   ELSE Cut(PrinterInit(Machine(p, f)))
          IN  /\ p' = m.p
              /\ out' = m.w
              /\ frame' = IF m.st = "running" THEN [frame EXCEPT !.pc = "EndPage"]
                          ELSE [frame EXCEPT !.pc = "unwind", !.panicking = TRUE]
    /\ UNCHANGED <<op, status, handle, sys>>

\* err = p.EndPage(); the function returns whatever it answers
DriverEndPage ==
    /\ status = "running"
    /\ frame.pc = "EndPage"
    /\ \E ok \in BOOLEAN :
          /\ sys' = Called("EndPagePrinter", ok)
          /\ frame' = IF ok THEN [frame EXCEPT !.pc = "unwind"] ELSE Fail(frame, "EndPage")
    /\ UNCHANGED <<p, out, op, status, handle>>

\* the deferred call on top of the stack runs, its error dropped; after the
\* last one the function has returned, or the panic ends the process
DriverDeferred ==
    /\ status = "running"
    /\ frame.pc = "unwind"
    /\ IF frame.defers = <<>>
       THEN /\ frame' = [frame EXCEPT !.pc = IF frame.panicking THEN "panic" ELSE "returned"]
            /\ status' = IF frame.panicking THEN "panic" ELSE status
            /\ UNCHANGED <<sys, handle>>
       ELSE \E ok \in BOOLEAN :
               LET call == frame.defers[Len(frame.defers)]
               IN  /\ sys' = Called(IF call = "Close" THEN "ClosePrinter" ELSE "EndDocPrinter", ok)
                   /\ handle' = IF call = "Close" THEN Close(handle, ok) ELSE handle
                   /\ frame' = [frame EXCEPT !.defers = SubSeq(@, 1, Len(@) - 1)]
                   /\ status' = status
    /\ UNCHANGED <<p, out, op>>

NextDriver ==
    \/ DriverDefault
    \/ DriverOpen
    \/ DriverStartDocument
    \/ DriverStartPage
    \/ DriverBody
    \/ DriverEndPage
    \/ DriverDeferred

SpecDriver == InitDriver /\ [][NextDriver]_vars

\* C19: when Open has failed, the driver does not die on the printer value
\* and calls nothing more: OpenPrinter is its last call, and it reports the
\* error of Open.
C19_OpenFailureReported ==
    \A k \in 1..Len(sys) :
        (sys[k].fn = "OpenPrinter" /\ ~sys[k].ok) =>
            /\ status # "panic"
            /\ k = Len(sys)
            /\ frame.err = "Open"

====
